---- MODULE Spec2Model ----
(***************************************************************************)
(* A model of the chained hash table of src/src/lib.rs: the table          *)
(* (buckets, items), its operations insert / get / contains_key / remove / *)
(* len / is_empty with the internal resize and hash_index, and the cursor  *)
(* Iter (bucket_index, elem_index) with next.                              *)
(*                                                                         *)
(* Vec indices are 0-based in the source and 1-based here: the bucket with *)
(* source index i is buckets[i + 1], the entry with source index j of a    *)
(* bucket is bucket[j + 1].  An entry (K, V) is the pair <<k, v>>.         *)
(***************************************************************************)
EXTENDS Integers, Sequences, FiniteSets, TLC

\* ---------------------------------------------------------------- bounds
NumKeys == 2
NumValues == 2
MaxHash == 1
MaxItems == 4

Keys == 1..NumKeys
Values == 1..NumValues
HashVals == 0..MaxHash

\* ------------------------------------------------------- program constants
INITIAL_NUM_BUCKETS == 1

\* ------------------------------------------------------------------ state
VARIABLES
    buckets,   \* HashMap.buckets : Vec<Vec<(K, V)>>
    items,     \* HashMap.items   : usize
    hash,      \* the value DefaultHasher gives each key (fixed for the run)
    iter,      \* the live cursor, if any: [active, bucket_index, elem_index]
    yielded,   \* the pairs the live cursor has returned so far
    last       \* the last call made and what it returned

vars == <<buckets, items, hash, iter, yielded, last>>

\* Option<V> and the outcome of a call that panics
None == <<"None">>
Some(v) == <<"Some", v>>
Panic == <<"Panic">>
Unit == <<"Unit">>

\* ---------------------------------------------------------------- helpers
\* Iterator::position over a bucket: the 1-based index of the first entry
\* whose key equals key, 0 when there is none.
RECURSIVE position(_, _, _)
position(bucket, key, i) ==
    IF i > Len(bucket) THEN 0
    ELSE IF bucket[i][1] = key THEN i
    ELSE position(bucket, key, i + 1)

\* self.buckets.iter_mut().flat_map(|bucket| bucket.drain(..)): the entries of
\* all buckets, bucket by bucket, each bucket front to back.
RECURSIVE drain(_)
drain(b) ==
    IF b = <<>> THEN <<>> ELSE Head(b) \o drain(Tail(b))

\* (hasher.finish() % table_size as u64) as usize; the remainder panics when
\* table_size is 0, which callers test with hash_index_panics.
hash_index(key, table_size) == hash[key] % table_size

hash_index_panics(table_size) == table_size = 0

\* rehash with the index taken for the old bucket count (self.buckets.len()
\* in place of new_buckets.len())
RECURSIVE rehash_old_size(_, _)
rehash_old_size(entries, new_buckets) ==
    IF entries = <<>> THEN new_buckets
    ELSE LET e == Head(entries)
             index == hash_index(e[1], Len(new_buckets) \div 2)
         IN  rehash_old_size(Tail(entries),
                             [new_buckets EXCEPT ![index + 1] = Append(@, e)])

\* rehash that pushes every drained entry on the first new bucket
RECURSIVE rehash_first_bucket(_, _)
rehash_first_bucket(entries, new_buckets) ==
    IF entries = <<>> THEN new_buckets
    ELSE LET e == Head(entries)
             index == 0
         IN  rehash_first_bucket(Tail(entries),
                                 [new_buckets EXCEPT ![index + 1] = Append(@, e)])

\* the for loop of resize: push every drained entry on its new bucket
RECURSIVE rehash(_, _)
rehash(entries, new_buckets) ==
    IF entries = <<>> THEN new_buckets
    ELSE LET e == Head(entries)
             index == hash_index(e[1], Len(new_buckets))
         IN  rehash(Tail(entries),
                    [new_buckets EXCEPT ![index + 1] = Append(@, e)])

\* new_buckets.extend((0..target_size).map(|_| vec![])): n empty buckets
RECURSIVE empty_buckets(_)
empty_buckets(n) ==
    IF n = 0 THEN <<>> ELSE Append(empty_buckets(n - 1), <<>>)

\* resize that grows the bucket array by one bucket (n + 1 in place of n * 2)
resize_grows_by_one(b) ==
    LET target_size == IF Len(b) = 0 THEN INITIAL_NUM_BUCKETS ELSE Len(b) + 1
        new_buckets == empty_buckets(target_size)
    IN  rehash(drain(b), new_buckets)

resize(b) ==
    LET target_size == IF Len(b) = 0 THEN INITIAL_NUM_BUCKETS ELSE Len(b) * 2
        new_buckets == empty_buckets(target_size)
    IN  rehash(drain(b), new_buckets)

\* insert that returns the old value of a present key without storing the new
insert_keeps_old(b, n, key, value) ==
    LET n1 == n + 1
        resized == n1 > (Len(b) * 3) \div 4
        b1 == IF resized THEN resize(b) ELSE b
        index == hash_index(key, Len(b1))
        bucket == b1[index + 1]
        i == position(bucket, key, 1)
    IN  IF i # 0
        THEN [buckets |-> b1,
              items |-> n1, ret |-> Some(bucket[i][2]), resized |-> resized]
        ELSE [buckets |-> [b1 EXCEPT ![index + 1] = Append(@, <<key, value>>)],
              items |-> n1, ret |-> None, resized |-> resized]

\* insert that returns the value it has just stored (mem::replace result lost)
insert_returns_new(b, n, key, value) ==
    LET n1 == n + 1
        resized == n1 > (Len(b) * 3) \div 4
        b1 == IF resized THEN resize(b) ELSE b
        index == hash_index(key, Len(b1))
        bucket == b1[index + 1]
        i == position(bucket, key, 1)
    IN  IF i # 0
        THEN [buckets |-> [b1 EXCEPT ![index + 1][i] = <<key, value>>],
              items |-> n1, ret |-> Some(value), resized |-> resized]
        ELSE [buckets |-> [b1 EXCEPT ![index + 1] = Append(@, <<key, value>>)],
              items |-> n1, ret |-> None, resized |-> resized]

\* insert without the scan for an equal key: always pushes
insert_always_pushes(b, n, key, value) ==
    LET n1 == n + 1
        resized == n1 > (Len(b) * 3) \div 4
        b1 == IF resized THEN resize(b) ELSE b
        index == hash_index(key, Len(b1))
        bucket == b1[index + 1]
        i == position(bucket, key, 1)
    IN  [buckets |-> [b1 EXCEPT ![index + 1] = Append(@, <<key, value>>)],
         items |-> n1,
         ret |-> IF i # 0 THEN Some(bucket[i][2]) ELSE None,
         resized |-> resized]

\* insert that tests the load before it counts the new entry
\* (self.items > ... ahead of self.items += 1)
insert_checks_before_count(b, n, key, value) ==
    LET n1 == n + 1
        resized == n > (Len(b) * 3) \div 4
        b1 == IF resized THEN resize(b) ELSE b
        index == hash_index(key, Len(b1))
        bucket == b1[index + 1]
        i == position(bucket, key, 1)
    IN  IF hash_index_panics(Len(b1))
        THEN [buckets |-> b1, items |-> n1, ret |-> Panic, resized |-> resized]
        ELSE IF i # 0
        THEN [buckets |-> [b1 EXCEPT ![index + 1][i] = <<key, value>>],
              items |-> n1, ret |-> Some(bucket[i][2]), resized |-> resized]
        ELSE [buckets |-> [b1 EXCEPT ![index + 1] = Append(@, <<key, value>>)],
              items |-> n1, ret |-> None, resized |-> resized]

\* insert(key, value) on the table (b, n): the table after the call, the
\* value returned and whether resize ran.
insert(b, n, key, value) ==
    LET n1 == n + 1
        resized == n1 > (Len(b) * 3) \div 4
        b1 == IF resized THEN resize(b) ELSE b
        index == hash_index(key, Len(b1))
        bucket == b1[index + 1]
        i == position(bucket, key, 1)
    IN  IF hash_index_panics(Len(b1))
        THEN [buckets |-> b1, items |-> n1, ret |-> Panic, resized |-> resized]
        ELSE IF i # 0
        THEN [buckets |-> [b1 EXCEPT ![index + 1][i] = <<key, value>>],
              items |-> n1, ret |-> Some(bucket[i][2]), resized |-> resized]
        ELSE [buckets |-> [b1 EXCEPT ![index + 1] = Append(@, <<key, value>>)],
              items |-> n1, ret |-> None, resized |-> resized]

\* get that looks at the first entry of the bucket only (next in place of find)
get_first_only(b, key) ==
    IF hash_index_panics(Len(b)) THEN Panic
    ELSE LET bucket == b[hash_index(key, Len(b)) + 1]
         IN  IF bucket # <<>> /\ bucket[1][1] = key
             THEN Some(bucket[1][2]) ELSE None

get(b, key) ==
    IF hash_index_panics(Len(b)) THEN Panic
    ELSE LET bucket == b[hash_index(key, Len(b)) + 1]
             i == position(bucket, key, 1)
         IN  IF i = 0 THEN None ELSE Some(bucket[i][2])

\* contains_key with is_none() in place of is_some()
contains_key_is_none(b, key) ==
    LET r == get(b, key)
    IN  IF r = Panic THEN Panic ELSE r = None

contains_key(b, key) ==
    LET r == get(b, key)
    IN  IF r = Panic THEN Panic ELSE r # None

\* a removal that drops the last slot without moving its entry to slot i (pop)
swap_remove_pops_last(bucket, i) ==
    SubSeq(bucket, 1, Len(bucket) - 1)

\* a removal that cuts the bucket at slot i (truncate in place of swap_remove)
swap_remove_truncates(bucket, i) ==
    SubSeq(bucket, 1, i - 1)

\* Vec::swap_remove(i): the last entry takes slot i, the Vec loses its last slot
swap_remove(bucket, i) ==
    LET n == Len(bucket)
    IN  IF i = n THEN SubSeq(bucket, 1, n - 1)
        ELSE SubSeq(bucket, 1, i - 1) \o <<bucket[n]>> \o SubSeq(bucket, i + 1, n - 1)

\* remove that takes the value and the count but leaves the entry in its bucket
remove_keeps_entry(b, n, key) ==
    IF hash_index_panics(Len(b))
    THEN [buckets |-> b, items |-> n, ret |-> Panic]
    ELSE LET index == hash_index(key, Len(b))
             bucket == b[index + 1]
             i == position(bucket, key, 1)
         IN  IF i = 0
             THEN [buckets |-> b, items |-> n, ret |-> None]
             ELSE IF n = 0
                  THEN [buckets |-> b, items |-> n, ret |-> Panic]
                  ELSE [buckets |-> b, items |-> n - 1,
                        ret |-> Some(bucket[i][2])]

\* remove that lowers the count before it knows the key is stored
remove_counts_on_miss(b, n, key) ==
    IF hash_index_panics(Len(b))
    THEN [buckets |-> b, items |-> n, ret |-> Panic]
    ELSE LET index == hash_index(key, Len(b))
             bucket == b[index + 1]
             i == position(bucket, key, 1)
         IN  IF n = 0
             THEN [buckets |-> b, items |-> n, ret |-> Panic]
             ELSE IF i = 0
             THEN [buckets |-> b, items |-> n - 1, ret |-> None]
             ELSE [buckets |-> [b EXCEPT ![index + 1] = swap_remove(bucket, i)],
                   items |-> n - 1, ret |-> Some(bucket[i][2])]

\* remove(key) on the table (b, n).  `self.items -= 1` on a zero counter
\* panics after the entry is gone (overflow checks on).
remove(b, n, key) ==
    IF hash_index_panics(Len(b))
    THEN [buckets |-> b, items |-> n, ret |-> Panic]
    ELSE LET index == hash_index(key, Len(b))
             bucket == b[index + 1]
             i == position(bucket, key, 1)
         IN  IF i = 0
             THEN [buckets |-> b, items |-> n, ret |-> None]
             ELSE LET b1 == [b EXCEPT ![index + 1] = swap_remove(bucket, i)]
                  IN  IF n = 0
                      THEN [buckets |-> b1, items |-> n, ret |-> Panic]
                      ELSE [buckets |-> b1, items |-> n - 1,
                            ret |-> Some(bucket[i][2])]

len(n) == n

is_empty(n) == n = 0

\* next that does not reset elem_index when it moves to the following bucket
RECURSIVE next_keeps_elem_index(_, _, _)
next_keeps_elem_index(b, bi, ei) ==
    IF bi < Len(b)
    THEN IF ei < Len(b[bi + 1])
         THEN [bucket_index |-> bi, elem_index |-> ei + 1,
               ret |-> Some(b[bi + 1][ei + 1])]
         ELSE next_keeps_elem_index(b, bi + 1, ei)
    ELSE [bucket_index |-> bi, elem_index |-> ei, ret |-> None]

\* next that gives up at the end of a bucket (break None in place of the
\* move to the following bucket)
next_stops_at_bucket_end(b, bi, ei) ==
    IF bi < Len(b) /\ ei < Len(b[bi + 1])
    THEN [bucket_index |-> bi, elem_index |-> ei + 1,
          ret |-> Some(b[bi + 1][ei + 1])]
    ELSE [bucket_index |-> bi, elem_index |-> ei, ret |-> None]

\* next that reads a bucket from its back (len - 1 - elem_index)
RECURSIVE next_reads_from_back(_, _, _)
next_reads_from_back(b, bi, ei) ==
    IF bi < Len(b)
    THEN IF ei < Len(b[bi + 1])
         THEN [bucket_index |-> bi, elem_index |-> ei + 1,
               ret |-> Some(b[bi + 1][Len(b[bi + 1]) - ei])]
         ELSE next_reads_from_back(b, bi + 1, 0)
    ELSE [bucket_index |-> bi, elem_index |-> ei, ret |-> None]

\* Iter::next on the cursor (bi, ei) over the buckets b (bi, ei 0-based):
\* the cursor after the call and the item returned.
RECURSIVE next(_, _, _)
next(b, bi, ei) ==
    IF bi < Len(b)
    THEN IF ei < Len(b[bi + 1])
         THEN [bucket_index |-> bi, elem_index |-> ei + 1,
               ret |-> Some(b[bi + 1][ei + 1])]
         ELSE next(b, bi + 1, 0)
    ELSE [bucket_index |-> bi, elem_index |-> ei, ret |-> None]

\* ------------------------------------------------------------------- Init
NoIter == [active |-> FALSE, bucket_index |-> 0, elem_index |-> 0]

NoCall == [op |-> "new", key |-> 0, value |-> 0, ret |-> Unit, resized |-> FALSE]

\* HashMap::new(), under any hash function
Init ==
    /\ buckets = <<>>
    /\ items = 0
    /\ hash \in [Keys -> HashVals]
    /\ iter = NoIter
    /\ yielded = <<>>
    /\ last = NoCall

\* ---------------------------------------------------------------- actions
\* A &mut self call needs no live cursor (the cursor borrows the map).
Insert(key, value) ==
    /\ ~iter.active
    /\ items < MaxItems
    /\ LET r == insert(buckets, items, key, value)
       IN  /\ buckets' = r.buckets
           /\ items' = r.items
           /\ last' = [op |-> "insert", key |-> key, value |-> value,
                       ret |-> r.ret, resized |-> r.resized]
    /\ UNCHANGED <<hash, iter, yielded>>

Get(key) ==
    /\ ~iter.active
    /\ last' = [op |-> "get", key |-> key, value |-> 0,
                ret |-> get(buckets, key), resized |-> FALSE]
    /\ UNCHANGED <<buckets, items, hash, iter, yielded>>

ContainsKey(key) ==
    /\ ~iter.active
    /\ last' = [op |-> "contains_key", key |-> key, value |-> 0,
                ret |-> contains_key(buckets, key), resized |-> FALSE]
    /\ UNCHANGED <<buckets, items, hash, iter, yielded>>

Remove(key) ==
    /\ ~iter.active
    /\ LET r == remove(buckets, items, key)
       IN  /\ buckets' = r.buckets
           /\ items' = r.items
           /\ last' = [op |-> "remove", key |-> key, value |-> 0,
                       ret |-> r.ret, resized |-> FALSE]
    /\ UNCHANGED <<hash, iter, yielded>>

LenCall ==
    /\ ~iter.active
    /\ last' = [op |-> "len", key |-> 0, value |-> 0,
                ret |-> len(items), resized |-> FALSE]
    /\ UNCHANGED <<buckets, items, hash, iter, yielded>>

IsEmptyCall ==
    /\ ~iter.active
    /\ last' = [op |-> "is_empty", key |-> 0, value |-> 0,
                ret |-> is_empty(items), resized |-> FALSE]
    /\ UNCHANGED <<buckets, items, hash, iter, yielded>>

\* (&map).into_iter() = Iter::new(map)
IntoIter ==
    /\ ~iter.active
    /\ iter' = [active |-> TRUE, bucket_index |-> 0, elem_index |-> 0]
    /\ yielded' = <<>>
    /\ last' = [op |-> "into_iter", key |-> 0, value |-> 0,
                ret |-> Unit, resized |-> FALSE]
    /\ UNCHANGED <<buckets, items, hash>>

IterNext ==
    /\ iter.active
    /\ LET r == next(buckets, iter.bucket_index, iter.elem_index)
       IN  /\ iter' = [active |-> TRUE, bucket_index |-> r.bucket_index,
                       elem_index |-> r.elem_index]
           /\ yielded' = IF r.ret = None THEN yielded
                         ELSE Append(yielded, r.ret[2])
           /\ last' = [op |-> "next", key |-> 0, value |-> 0,
                       ret |-> r.ret, resized |-> FALSE]
    /\ UNCHANGED <<buckets, items, hash>>

\* the cursor goes out of scope and the borrow ends
IterDrop ==
    /\ iter.active
    /\ iter' = NoIter
    /\ yielded' = <<>>
    /\ last' = [op |-> "drop_iter", key |-> 0, value |-> 0,
                ret |-> Unit, resized |-> FALSE]
    /\ UNCHANGED <<buckets, items, hash>>

Next ==
    \/ \E key \in Keys, value \in Values : Insert(key, value)
    \/ \E key \in Keys : Get(key)
    \/ \E key \in Keys : ContainsKey(key)
    \/ \E key \in Keys : Remove(key)
    \/ LenCall
    \/ IsEmptyCall
    \/ IntoIter
    \/ IterNext
    \/ IterDrop

Spec == Init /\ [][Next]_vars

\* ------------------------------------------------ vocabulary of the claims
\* the slots of the table b that hold an entry: <<bucket, position>>, 1-based
Slots(b) == UNION {{<<i, j>> : j \in 1..Len(b[i])} : i \in 1..Len(b)}

\* the slots of b that hold an entry with key k / that hold the entry e
SlotsOfKey(b, k) == {s \in Slots(b) : b[s[1]][s[2]][1] = k}

SlotsOfEntry(b, e) == {s \in Slots(b) : b[s[1]][s[2]] = e}

Present(b, k) == SlotsOfKey(b, k) # {}

Entries == Keys \X Values

\* how often the entry e occurs in the sequence q
Occurrences(q, e) == Cardinality({i \in 1..Len(q) : q[i] = e})

\* ----------------------------------------------------------------- claims
\* C1: immediately after insert(k, v), from any reachable table (a fresh
\* zero-bucket one and one the insert resizes included), get(k) is Some(v).
C1_RoundTrip ==
    last.op = "insert" => get(buckets, last.key) = Some(last.value)

\* an insert that resized a table already holding other keys
C1_Witness ==
    /\ last.op = "insert"
    /\ last.resized
    /\ Len(buckets) >= 2
    /\ \E k \in Keys : k # last.key /\ Present(buckets, k)

\* C2: len() equals the number of entries stored across all buckets, so an
\* insert of a key that is already present does not change len().
C2_CountMatchesEntries ==
    len(items) = Cardinality(Slots(buckets))

\* C3: insert(k, v_new) of a present key returns Some(v_old), get(k) is then
\* Some(v_new) and k still has exactly one entry; insert of an absent key
\* returns None.
C3_UpdateSemantics ==
    [][last'.op = "insert" =>
         LET k == last'.key
         IN  IF Present(buckets, k)
             THEN /\ \A s \in SlotsOfKey(buckets, k) :
                        last'.ret = Some(buckets[s[1]][s[2]][2])
                  /\ get(buckets', k) = Some(last'.value)
                  /\ Cardinality(SlotsOfKey(buckets', k)) = 1
             ELSE last'.ret = None]_vars

\* an update that changed the value of a present key
C3_Witness ==
    /\ last.op = "insert"
    /\ last.ret # None
    /\ last.ret # Some(last.value)
    /\ Cardinality(Slots(buckets)) >= 2

\* C4: on the table new() returns, len() is 0, is_empty() is true and get(k)
\* returns None for every key, without a fault, although there is no bucket.
C4_EmptyTable ==
    Len(buckets) = 0 =>
        /\ len(items) = 0
        /\ is_empty(items)
        /\ (last.op = "get" => last.ret = None)

\* C5: remove(k) of a key present with value v returns Some(v), get(k) is
\* then None, and len() is one less than before.
C5_RemovePresent ==
    [][(last'.op = "remove" /\ Present(buckets, last'.key)) =>
         LET k == last'.key
         IN  /\ \A s \in SlotsOfKey(buckets, k) :
                   last'.ret = Some(buckets[s[1]][s[2]][2])
             /\ get(buckets', k) = None
             /\ len(items') = len(items) - 1]_vars

\* a removal that returned a value and left other entries behind
C5_Witness ==
    /\ last.op = "remove"
    /\ last.ret # None
    /\ last.ret # Panic
    /\ Cardinality(Slots(buckets)) >= 1

\* C6: remove(k) of an absent key returns None and changes nothing (buckets,
\* entries, len()), in every table state, the zero-bucket one included, and
\* does not fault.
C6_RemoveAbsent ==
    [][(last'.op = "remove" /\ ~Present(buckets, last'.key)) =>
         /\ last'.ret = None
         /\ buckets' = buckets
         /\ items' = items]_vars

\* C7: at every point between calls, len() <= floor(bucket_count * 3 / 4).
C7_GrowthInvariant ==
    len(items) <= (Len(buckets) * 3) \div 4

\* C8: a full pass of a fresh cursor yields every stored entry exactly once,
\* each with the value its key currently has, and as many pairs as there are
\* distinct keys stored.
C8_IterationComplete ==
    (iter.active /\ last.op = "next" /\ last.ret = None) =>
        /\ \A e \in Entries :
              Occurrences(yielded, e) = Cardinality(SlotsOfEntry(buckets, e))
        /\ \A i \in 1..Len(yielded) :
              get(buckets, yielded[i][1]) = Some(yielded[i][2])
        /\ Len(yielded) = Cardinality({k \in Keys : Present(buckets, k)})

\* a finished pass over four or more buckets, some of them empty, with two
\* entries in different buckets
C8_Witness ==
    /\ iter.active
    /\ last.op = "next"
    /\ last.ret = None
    /\ Len(yielded) = 2
    /\ Len(buckets) >= 4
    /\ \E i \in 1..Len(buckets) : buckets[i] = <<>>
    /\ \A i \in 1..Len(buckets) : Len(buckets[i]) <= 1

\* C9: resize keeps the multiset of stored entries, and after an insert that
\* resized, every key stored before is still retrievable with its value.
C9_ResizeCorrect ==
    [][(last'.op = "insert" /\ last'.resized) =>
         LET resized == resize(buckets)
             before == Slots(buckets)
             after == Slots(resized)
         IN  /\ \A e \in Entries :
                   Cardinality({s \in after : resized[s[1]][s[2]] = e})
                     = Cardinality({s \in before : buckets[s[1]][s[2]] = e})
             /\ \A s \in before :
                   LET e == buckets[s[1]][s[2]]
                   IN  e[1] # last'.key => get(buckets', e[1]) = Some(e[2])]_vars

\* a third or later doubling that moved another stored key out of bucket 0
C9_Witness ==
    /\ last.op = "insert"
    /\ last.resized
    /\ Len(buckets) >= 4
    /\ \E k \in Keys : /\ k # last.key
                       /\ Present(buckets, k)
                       /\ SlotsOfKey(buckets, k) \cap {<<1, 1>>, <<1, 2>>} = {}

\* C10: at most one entry of the whole table has a given key, in every
\* reachable state.
C10_KeyUnique ==
    \A k \in Keys : Cardinality(SlotsOfKey(buckets, k)) <= 1

\* after doublings, an update of a stored key whose bucket holds two keys
C10_Witness ==
    /\ last.op = "insert"
    /\ last.ret # None
    /\ Len(buckets) >= 4
    /\ \E i \in 1..Len(buckets) : Len(buckets[i]) >= 2

\* C11: two consecutive remove(k) calls on a stored key return Some(v) and
\* then None, and the second changes neither the stored entries nor len().
C11_IdempotentRemoval ==
    [][/\ (last'.op = "remove" /\ Present(buckets, last'.key)) =>
            \E s \in SlotsOfKey(buckets, last'.key) :
                last'.ret = Some(buckets[s[1]][s[2]][2])
       /\ (last'.op = "remove" /\ last.op = "remove" /\ last'.key = last.key
              /\ last.ret # None /\ last.ret # Panic) =>
            /\ last'.ret = None
            /\ buckets' = buckets
            /\ items' = items]_vars

\* the second of two removals of one key, in a table that still holds the
\* other key in the same bucket
C11_Witness ==
    /\ last.op = "remove"
    /\ last.ret = None
    /\ ~Present(buckets, last.key)
    /\ Len(buckets) >= 2
    /\ buckets[hash_index(last.key, Len(buckets)) + 1] # <<>>

\* C12: contains_key(k) is get(k).is_some(): true exactly when an entry with
\* key k is stored, and on a zero-bucket table it does what get does.
C12_ContainsKey ==
    last.op = "contains_key" =>
        IF get(buckets, last.key) = Panic
        THEN last.ret = Panic /\ Len(buckets) = 0
        ELSE last.ret = Present(buckets, last.key)

\* contains_key found a key stored behind another entry of its bucket
C12_Witness ==
    /\ last.op = "contains_key"
    /\ \E s \in SlotsOfKey(buckets, last.key) : s[2] >= 2
    /\ last.ret = TRUE

\* C13: the table starts with zero buckets; the first insert leaves exactly
\* one; every later change of the bucket count is an exact doubling made by
\* insert; no call ever lowers the count, and remove never changes it.
C13_BucketLifecycle ==
    /\ Len(buckets) = 0
    /\ [][/\ Len(buckets') >= Len(buckets)
          /\ (Len(buckets') # Len(buckets)) =>
               (/\ last'.op = "insert"
                /\ Len(buckets') = IF Len(buckets) = 0 THEN 1
                                   ELSE 2 * Len(buckets))
          /\ (last'.op = "insert" /\ Len(buckets) = 0) => Len(buckets') = 1
          /\ (last'.op # "insert") => Len(buckets') = Len(buckets)]_vars

\* a removal from a table that has doubled up to eight buckets
C13_Witness ==
    /\ last.op = "remove"
    /\ last.ret # None
    /\ last.ret # Panic
    /\ Len(buckets) = 8

\* C14: every entry stored in bucket i has hash(key) mod buckets.length = i
\* under the current bucket count.
C14_BucketPlacement ==
    \A s \in Slots(buckets) :
        hash[buckets[s[1]][s[2]][1]] % Len(buckets) = s[1] - 1

\* after a resize, two keys that shared bucket 0 lie in different buckets
C14_Witness ==
    /\ last.op = "insert"
    /\ last.resized
    /\ Len(buckets) >= 2
    /\ \E s, t \in Slots(buckets) : s[1] # t[1]

\* the slots of b at or after the cursor c: the entries a pass has still to
\* yield
Remaining(b, c) ==
    {s \in Slots(b) : \/ s[1] - 1 > c.bucket_index
                      \/ s[1] - 1 = c.bucket_index /\ s[2] - 1 >= c.elem_index}

\* the cursor c is before the cursor d, lexicographically
CursorBefore(c, d) ==
    \/ c.bucket_index < d.bucket_index
    \/ c.bucket_index = d.bucket_index /\ c.elem_index < d.elem_index

\* C15: on an unmodified table every next() call ends, a cursor is exhausted
\* after as many yielding calls as entries remained (over empty buckets and
\* on zero buckets too), and after a None every later next() is None.
C15_CursorTerminates ==
    [][(last'.op = "next") =>
         /\ buckets' = buckets
         /\ (last'.ret = None) = (Remaining(buckets, iter) = {})
         /\ (last'.ret # None) =>
              Cardinality(Remaining(buckets, iter'))
                = Cardinality(Remaining(buckets, iter)) - 1
         /\ (last'.ret = None) => Remaining(buckets, iter') = {}
         /\ (last.op = "next" /\ last.ret = None) => last'.ret = None]_vars

\* a pass that ended after one entry, with an empty bucket before it and a
\* run of empty buckets behind it
C15_Witness ==
    /\ iter.active
    /\ last.op = "next"
    /\ last.ret = None
    /\ Len(yielded) = 1
    /\ Len(buckets) >= 4
    /\ buckets[1] = <<>>
    /\ buckets[2] # <<>>

\* C16: a pass yields its pairs in increasing bucket order and, within one
\* bucket, in increasing position order; the cursor (bucket_index,
\* elem_index) never moves backwards, and every move is a lexicographic
\* increase.
C16_CursorOrder ==
    [][(last'.op = "next") =>
         /\ ~CursorBefore(iter', iter)
         /\ (iter' # iter) => CursorBefore(iter, iter')
         /\ (last'.ret # None) =>
              /\ CursorBefore(iter, iter')
              /\ \A s \in SlotsOfEntry(buckets, last'.ret[2]) :
                    \A i \in 1..Len(yielded) :
                       \A t \in SlotsOfEntry(buckets, yielded[i]) :
                          \/ t[1] < s[1]
                          \/ t[1] = s[1] /\ t[2] < s[2]]_vars

\* a pass that yielded two entries of one bucket
C16_Witness ==
    /\ iter.active
    /\ last.op = "next"
    /\ Len(yielded) = 2
    /\ \E i \in 1..Len(buckets) : Len(buckets[i]) = 2

AbsLookup(b, k) ==
    IF Present(b, k)
    THEN LET s == CHOOSE s \in SlotsOfKey(b, k) : TRUE
         IN  Some(b[s[1]][s[2]][2])
    ELSE None

\* the graph of that function: the set of stored (key, value) pairs
Graph(b) == {b[s[1]][s[2]] : s \in Slots(b)}

\* C18: once an insert has been made, get(k) is the lookup of k in the
\* abstract function, which insert(k, v) changes at k to v and remove(k) at
\* k to absent and nowhere else, also when the insert resizes.
C18_RefinesMap ==
    /\ [](Len(buckets) > 0 =>
             \A k \in Keys : get(buckets, k) = AbsLookup(buckets, k))
    /\ [][
       /\ (last'.op = "insert") =>
            Graph(buckets') = {e \in Graph(buckets) : e[1] # last'.key}
                                \cup {<<last'.key, last'.value>>}
       /\ (last'.op = "remove") =>
            Graph(buckets') = {e \in Graph(buckets) : e[1] # last'.key}
       /\ (last'.op \notin {"insert", "remove"}) => buckets' = buckets]_vars

\* an insert that resized a bucket shared by the two keys and kept both in
\* one bucket, the other key first
C18_Witness ==
    /\ last.op = "insert"
    /\ last.resized
    /\ Len(buckets) >= 2
    /\ \E s \in SlotsOfKey(buckets, last.key) : s[2] = 2

\* C19: the items counter is never below the number of stored entries, so
\* the decrement of remove never meets a counter equal to zero.
C19_NoCountUnderflow ==
    /\ items >= Cardinality(Slots(buckets))
    /\ (last.op = "remove" /\ Len(buckets) > 0) => last.ret # Panic

\* a removal that brought the counter down to zero
C19_Witness ==
    /\ last.op = "remove"
    /\ last.ret # None
    /\ last.ret # Panic
    /\ items = 0

\* C20: insert resizes at most once per call, exactly when the incremented
\* count exceeds floor(buckets.length * 3 / 4), which is always so on zero
\* buckets; so insert takes hash(key) mod buckets.length with one bucket or
\* more and never faults.
C20_InsertNeverFaults ==
    [][(last'.op = "insert") =>
         /\ last'.ret # Panic
         /\ Len(buckets') >= 1
         /\ last'.resized = (items + 1 > (Len(buckets) * 3) \div 4)
         /\ (Len(buckets) = 0) => last'.resized
         /\ Len(buckets') = IF last'.resized
                            THEN IF Len(buckets) = 0 THEN 1 ELSE 2 * Len(buckets)
                            ELSE Len(buckets)]_vars

\* the first insert of a table: zero buckets before, one after
C20_Witness ==
    /\ last.op = "insert"
    /\ last.resized
    /\ Len(buckets) = 1
    /\ items = 1

====
